---- MODULE Spec2Model ----
(***************************************************************************)
(* Model of eagerpy/tensor/pytorch.py: the PyTorchTensor adapter.          *)
(*                                                                         *)
(* Python values are tagged records: [kind |-> "adapter", cls, raw],       *)
(* [kind |-> "tuple" | "list", items], [kind |-> "scalar", dtype],         *)
(* [kind |-> "raw", raw].  A native array is a record with its shape,      *)
(* dtype, device and a tag `src` naming where its contents come from.      *)
(* Every method call is one action; it leaves its outcome in `call`:       *)
(* the exception raised (or "none"), the backend calls made, in order,     *)
(* and the adapters returned.                                              *)
(***************************************************************************)
EXTENDS Integers, Sequences, FiniteSets, TLC

VARIABLES self, call, mem

vars == <<self, call, mem>>

\* ---------------------------------------------------------------- bounds
MaxNdim == 4
MaxSize == 2
MaxOthers == 2
MaxRank == 2
MaxAxes == 2
MaxCalls == 2
MaxLen == 2

\* ------------------------------------------------------ exception classes
ValueError == "ValueError"
TypeError == "TypeError"
NotImplementedError == "NotImplementedError"
AssertionError == "AssertionError"
IndexError == "IndexError"
RuntimeError == "RuntimeError"
NoError == "none"

\* ------------------------------------------------------------ python data
PyTuple(items) == [kind |-> "tuple", items |-> items]
PyList(items) == [kind |-> "list", items |-> items]

\* type(self)(raw): a new adapter of class cls around the native array raw
Wrap(cls, raw) == [kind |-> "adapter", cls |-> cls, raw |-> raw]

istensor(x) == x.kind = "adapter"

\* unwrap_ of one argument: the raw array of an adapter, anything else as is
unwrap_(x) == IF istensor(x) THEN x.raw ELSE x

\* unwrap_ of a tuple of values: each adapter in it replaced by its raw array
unwrap_all(xs) == [i \in DOMAIN xs |-> unwrap_(xs[i])]

Tensor(shape, dtype, device, src) ==
    [shape |-> shape, dtype |-> dtype, device |-> device, src |-> src]

shape(x) == x.raw.shape
ndim(x) == Len(x.raw.shape)
dtype(x) == x.raw.dtype
len(x) == x.raw.shape[1]

Shapes(n) == UNION {[1..k -> 1..MaxSize] : k \in 0..n}

\* ------------------------------------------------------- outcome of a call
\* n counts the calls made so far
NoCall == [op |-> "none", args |-> [none |-> TRUE], err |-> NoError,
           backend |-> <<>>, result |-> <<>>, n |-> 0]

Raise(op, args, err) ==
    [op |-> op, args |-> args, err |-> err, backend |-> <<>>, result |-> <<>>,
     n |-> call.n + 1]

\* the backend itself raised err during the last of the calls in backend
BackendRaise(op, args, backend, err) ==
    [op |-> op, args |-> args, err |-> err, backend |-> backend,
     result |-> <<>>, n |-> call.n + 1]

Return(op, args, backend, result) ==
    [op |-> op, args |-> args, err |-> NoError, backend |-> backend,
     result |-> result, n |-> call.n + 1]

\* ------------------------------------------------------------------ tile
torch_repeat(t, m) ==
    Tensor([i \in 1..Len(t.shape) |-> t.shape[i] * m[i]], t.dtype, t.device,
           "repeat")

tile(multiples) ==
    /\ call.op = "none"
    /\ LET m == unwrap_(multiples)
           args == [multiples |-> multiples]
       IN  call' = IF Len(m.items) # ndim(self)
                   THEN Raise("tile", args, ValueError)
                   ELSE Return("tile", args,
                               <<[fn |-> "repeat", arg |-> m.items]>>,
                               <<Wrap(self.cls,
                                      torch_repeat(self.raw, m.items))>>)
    /\ UNCHANGED <<self, mem>>

\* ---------------------------------------------------------------- matmul
torch_matmul(a, b) ==
    Tensor(<<a.shape[1], b.shape[2]>>, a.dtype, a.device, "matmul")

matmul(other) ==
    /\ call.op = "none"
    /\ LET args == [other |-> other]
           bk == <<[fn |-> "matmul", arg |-> other.raw.shape]>>
       IN  call' = IF ndim(self) # 2 \/ ndim(other) # 2
                   THEN Raise("matmul", args, ValueError)
                   ELSE IF shape(self)[2] # shape(other)[1]
                   THEN BackendRaise("matmul", args, bk, RuntimeError)
                   ELSE Return("matmul", args, bk,
                               <<Wrap(self.cls,
                                      torch_matmul(self.raw, other.raw))>>)
    /\ UNCHANGED <<self, mem>>

\* ----------------------------------------------------------- onehot_like
torch_zeros_like(t) == Tensor(t.shape, t.dtype, t.device, "zeros")

onehot_like(indices) ==
    /\ call.op = "none"
    /\ LET args == [indices |-> indices] IN
       call' = IF ndim(self) # 2
               THEN Raise("onehot_like", args, ValueError)
               ELSE IF ndim(indices) # 1
               THEN Raise("onehot_like", args, ValueError)
               ELSE IF len(indices) # len(self)
               THEN Raise("onehot_like", args, ValueError)
               ELSE Return("onehot_like", args,
                           <<[fn |-> "zeros_like", arg |-> shape(self)],
                             [fn |-> "setitem", arg |-> shape(indices)]>>,
                           <<Wrap(self.cls,
                                  [torch_zeros_like(self.raw)
                                     EXCEPT !.src = "onehot"])>>)
    /\ UNCHANGED <<self, mem>>

\* ---------------------------------------------------------- crossentropy
torch_cross_entropy(t) ==
    Tensor(SubSeq(t.shape, 1, 1), t.dtype, t.device, "cross_entropy")

crossentropy(labels) ==
    /\ call.op = "none"
    /\ LET args == [labels |-> labels] IN
       call' = IF ndim(self) # 2
               THEN Raise("crossentropy", args, ValueError)
               ELSE IF SubSeq(shape(self), 1, 1) # shape(labels)
               THEN Raise("crossentropy", args, ValueError)
               ELSE Return("crossentropy", args,
                           <<[fn |-> "cross_entropy", arg |-> shape(labels)]>>,
                           <<Wrap(self.cls, torch_cross_entropy(self.raw))>>)
    /\ UNCHANGED <<self, mem>>

\* -------------------------------------------------------------- meshgrid
numel(t) == IF Len(t.shape) = 0 THEN 1 ELSE t.shape[1]

\* torch.meshgrid(*inputs): output i is input i laid out along dimension i of
\* the grid, whose shape is the sequence of the inputs' lengths
torch_meshgrid(inputs) ==
    [i \in 1..Len(inputs) |->
        Tensor([j \in 1..Len(inputs) |-> numel(inputs[j])],
               inputs[i].dtype, inputs[i].device, inputs[i].src)]

meshgrid(tensors, indexing) ==
    /\ call.op = "none"
    /\ LET ts == unwrap_all(tensors)
           args == [tensors |-> tensors, indexing |-> indexing]
           inputs == IF indexing = "ij" \/ Len(ts) = 0
                     THEN <<self.raw>> \o ts
                     ELSE <<ts[1], self.raw>> \o SubSeq(ts, 2, Len(ts))
           bk == <<[fn |-> "meshgrid",
                    arg |-> [i \in 1..Len(inputs) |-> inputs[i].src]]>>
           outputs == torch_meshgrid(inputs)
           results == [i \in 1..Len(outputs) |-> Wrap(self.cls, outputs[i])]
       IN  call' = IF ~(indexing = "ij" \/ Len(ts) = 0) /\ indexing # "xy"
                   THEN Raise("meshgrid", args, ValueError)
                   ELSE IF \E i \in 1..Len(inputs) : Len(inputs[i].shape) > 1
                   THEN BackendRaise("meshgrid", args, bk, RuntimeError)
                   ELSE Return("meshgrid", args, bk,
                               IF indexing = "xy" /\ Len(results) >= 2
                               THEN <<results[2], results[1]>>
                                    \o SubSeq(results, 3, Len(results))
                               ELSE results)
    /\ UNCHANGED <<self, mem>>

\* ------------------------------------------------------------------- pad
\* Python's == on two sequences of pairs: a list never equals a tuple
PyPairEq(p, q) == p.kind = q.kind /\ p.items = q.items

PySeqEq(a, b) ==
    /\ a.kind = b.kind
    /\ Len(a.items) = Len(b.items)
    /\ \A i \in 1..Len(a.items) : PyPairEq(a.items[i], b.items[i])

\* tuple(x for p in reversed(paddings) for x in p), every p of length 2
flatten_reversed(pairs) ==
    [i \in 1..(2 * Len(pairs)) |->
        pairs[Len(pairs) - ((i - 1) \div 2)].items[((i - 1) % 2) + 1]]

\* torch.nn.functional.pad: entries 2j, 2j+1 (counted from 0) of the flat
\* padding are the amounts before and after dimension ndim-1-j
torch_pad_before(t, flat, d) ==
    LET j == Len(t.shape) - d IN
    IF 2 * j + 2 <= Len(flat) THEN flat[2 * j + 1] ELSE 0

torch_pad_after(t, flat, d) ==
    LET j == Len(t.shape) - d IN
    IF 2 * j + 2 <= Len(flat) THEN flat[2 * j + 2] ELSE 0

torch_pad(t, flat) ==
    [shape |-> [d \in 1..Len(t.shape) |->
                   t.shape[d] + torch_pad_before(t, flat, d)
                              + torch_pad_after(t, flat, d)],
     dtype |-> t.dtype, device |-> t.device, src |-> "pad",
     origin |-> [d \in 1..Len(t.shape) |-> torch_pad_before(t, flat, d)]]

\* reflection needs every padding amount smaller than the dimension it pads
torch_pad_accepts(t, flat, mode) ==
    mode = "reflect" =>
        \A d \in 1..Len(t.shape) :
            /\ torch_pad_before(t, flat, d) < t.shape[d]
            /\ torch_pad_after(t, flat, d) < t.shape[d]

pad(paddings, mode, value) ==
    /\ call.op = "none"
    /\ LET n == ndim(self)
           args == [paddings |-> paddings, mode |-> mode, value |-> value]
           k == n - 2
           lead == [kind |-> paddings.kind,
                    items |-> SubSeq(paddings.items, 1, k)]
           zeros == PyTuple([i \in 1..k |-> PyTuple(<<0, 0>>)])
           kept == IF mode = "reflect"
                   THEN SubSeq(paddings.items, k + 1, n)
                   ELSE paddings.items
           flat == flatten_reversed(kept)
           bk == <<[fn |-> "pad", arg |-> flat, mode |-> mode,
                    value |-> value]>>
       IN  call' =
             IF Len(paddings.items) # n
             THEN Raise("pad", args, ValueError)
             ELSE IF \E i \in 1..n : Len(paddings.items[i].items) # 2
             THEN Raise("pad", args, ValueError)
             ELSE IF ~(mode = "constant" \/ mode = "reflect")
             THEN Raise("pad", args, ValueError)
             ELSE IF mode = "reflect" /\ n # 3 /\ n # 4
             THEN Raise("pad", args, NotImplementedError)
             ELSE IF mode = "reflect" /\ ~PySeqEq(lead, zeros)
             THEN Raise("pad", args, NotImplementedError)
             ELSE IF ~torch_pad_accepts(self.raw, flat, mode)
             THEN BackendRaise("pad", args, bk, RuntimeError)
             ELSE Return("pad", args, bk,
                         <<Wrap(self.cls, torch_pad(self.raw, flat))>>)
    /\ UNCHANGED <<self, mem>>

\* ----------------------------------------------------------- assert_bool
\* assert_bool that lets every element type through
assert_bool_unchecked(x) == NoError

assert_bool(x) ==
    IF ~istensor(x) THEN NoError
    ELSE IF x.raw.dtype # "bool" THEN ValueError
    ELSE NoError

\* ------------------------------------------- min, max, all, any, squeeze
\* the axis argument: None, one int, or an iterable of ints
NoneAxis == [kind |-> "none", items |-> <<>>]
IntAxis(k) == [kind |-> "int", items |-> <<k>>]

RECURSIVE insert_desc(_, _)
insert_desc(s, v) ==
    IF s = <<>> THEN <<v>>
    ELSE IF v >= Head(s) THEN <<v>> \o s
    ELSE <<Head(s)>> \o insert_desc(Tail(s), v)

RECURSIVE sort_desc(_)
sort_desc(s) ==
    IF s = <<>> THEN <<>> ELSE insert_desc(sort_desc(Tail(s)), Head(s))

\* the order the code walks the axes in, had it not sorted them
given_order(axis) == axis

\* reversed(sorted(axis))
reversed_sorted(axis) == sort_desc(axis)

\* the backend takes dim in -ndim..ndim-1 (-1..0 for a 0-dimensional array)
torch_dim_ok(t, i) ==
    IF Len(t.shape) = 0 THEN i \in {-1, 0}
    ELSE -Len(t.shape) <= i /\ i < Len(t.shape)

\* the position, counted from 1, that dim i names
torch_dim(t, i) == IF i < 0 THEN i + Len(t.shape) + 1 ELSE i + 1

drop(s, d) == SubSeq(s, 1, d - 1) \o SubSeq(s, d + 1, Len(s))

result_dtype(fn, t) == IF fn \in {"all", "any"} THEN "bool" ELSE t.dtype

\* x.min(i, keepdim), x.max(i, keepdim), x.all(i, keepdim), x.any(i, keepdim)
torch_reduce_dim(fn, t, i, keepdim) ==
    Tensor(IF Len(t.shape) = 0 THEN t.shape
           ELSE IF keepdim THEN [t.shape EXCEPT ![torch_dim(t, i)] = 1]
           ELSE drop(t.shape, torch_dim(t, i)),
           result_dtype(fn, t), t.device, fn)

\* x.min(), x.max(), x.all(), x.any()
torch_reduce_all(fn, t) == Tensor(<<>>, result_dtype(fn, t), t.device, fn)

\* x.squeeze(dim=i): the dimension is removed when its size is 1
torch_squeeze_dim(t, i) ==
    Tensor(IF Len(t.shape) = 0 THEN t.shape
           ELSE IF t.shape[torch_dim(t, i)] = 1
           THEN drop(t.shape, torch_dim(t, i))
           ELSE t.shape,
           t.dtype, t.device, "squeeze")

\* x.squeeze(): every dimension of size 1 is removed
torch_squeeze_all(t) ==
    Tensor(SelectSeq(t.shape, LAMBDA n : n # 1), t.dtype, t.device, "squeeze")

torch_step(fn, t, i, keepdim) ==
    IF fn = "squeeze" THEN torch_squeeze_dim(t, i)
    ELSE torch_reduce_dim(fn, t, i, keepdim)

\* for i in axis: x = x.<fn>(i, keepdim=keepdims)
RECURSIVE axis_loop(_, _, _, _, _)
axis_loop(fn, x, axes, keepdims, done) ==
    IF axes = <<>> THEN [x |-> x, backend |-> done, err |-> NoError]
    ELSE LET bk == Append(done, [fn |-> fn, dim |-> <<Head(axes)>>,
                                 keepdim |-> keepdims])
         IN  IF ~torch_dim_ok(x, Head(axes))
             THEN [x |-> x, backend |-> bk, err |-> IndexError]
             ELSE axis_loop(fn, torch_step(fn, x, Head(axes), keepdims),
                            Tail(axes), keepdims, bk)

\* the body shared by min, max, all and any
reduce(fn, axis, keepdims) ==
    LET args == [axis |-> axis, keepdims |-> keepdims]
        given == IF axis.kind = "none"
                 THEN [i \in 1..ndim(self) |-> i - 1]
                 ELSE axis.items
        r == axis_loop(fn, self.raw, reversed_sorted(given), keepdims, <<>>)
    IN  IF axis.kind = "none" /\ ~keepdims
        THEN Return(fn, args,
                    <<[fn |-> fn, dim |-> <<>>, keepdim |-> FALSE]>>,
                    <<Wrap(self.cls, torch_reduce_all(fn, self.raw))>>)
        ELSE IF r.err # NoError
        THEN BackendRaise(fn, args, r.backend, r.err)
        ELSE Return(fn, args, r.backend, <<Wrap(self.cls, r.x)>>)

min(axis, keepdims) ==
    /\ call.op = "none"
    /\ call' = reduce("min", axis, keepdims)
    /\ UNCHANGED <<self, mem>>

max(axis, keepdims) ==
    /\ call.op = "none"
    /\ call' = reduce("max", axis, keepdims)
    /\ UNCHANGED <<self, mem>>

all(axis, keepdims) ==
    /\ call.op = "none"
    /\ call' = IF assert_bool(self) # NoError
               THEN Raise("all", [axis |-> axis, keepdims |-> keepdims],
                          assert_bool(self))
               ELSE reduce("all", axis, keepdims)
    /\ UNCHANGED <<self, mem>>

any(axis, keepdims) ==
    /\ call.op = "none"
    /\ call' = IF assert_bool(self) # NoError
               THEN Raise("any", [axis |-> axis, keepdims |-> keepdims],
                          assert_bool(self))
               ELSE reduce("any", axis, keepdims)
    /\ UNCHANGED <<self, mem>>

squeeze_call(axis) ==
    LET args == [axis |-> axis, keepdims |-> FALSE]
        r == axis_loop("squeeze", self.raw, reversed_sorted(axis.items),
                       FALSE, <<>>)
    IN  IF axis.kind = "none"
        THEN Return("squeeze", args,
                    <<[fn |-> "squeeze", dim |-> <<>>, keepdim |-> FALSE]>>,
                    <<Wrap(self.cls, torch_squeeze_all(self.raw))>>)
        ELSE IF r.err # NoError
        THEN BackendRaise("squeeze", args, r.backend, r.err)
        ELSE Return("squeeze", args, r.backend, <<Wrap(self.cls, r.x)>>)

squeeze(axis) ==
    /\ call.op = "none"
    /\ call' = squeeze_call(axis)
    /\ UNCHANGED <<self, mem>>

\* ------------------------------------ logical_and, logical_or, logical_not
\* the element type of a backend operand: a raw array or a Python scalar
native_dtype(other) ==
    IF istensor(other) THEN unwrap_(other).dtype ELSE unwrap_(other).raw.dtype

\* & and | are defined on bool and integer operands only
torch_bitwise_ok(a, b) == a \in {"bool", "int64"} /\ b \in {"bool", "int64"}

torch_bitwise(fn, t, b) ==
    Tensor(t.shape, IF t.dtype = "bool" THEN b ELSE t.dtype, t.device, fn)

logical_binary(fn, sym, other) ==
    LET args == [other |-> other]
        bk == <<[fn |-> sym, arg |-> native_dtype(other)]>>
    IN  IF assert_bool(self) # NoError
        THEN Raise(fn, args, assert_bool(self))
        ELSE IF assert_bool(other) # NoError
        THEN Raise(fn, args, assert_bool(other))
        ELSE IF ~torch_bitwise_ok(dtype(self), native_dtype(other))
        THEN BackendRaise(fn, args, bk, RuntimeError)
        ELSE Return(fn, args, bk,
                    <<Wrap(self.cls,
                           torch_bitwise(sym, self.raw,
                                         native_dtype(other)))>>)

logical_and(other) ==
    /\ call.op = "none"
    /\ call' = logical_binary("logical_and", "and", other)
    /\ UNCHANGED <<self, mem>>

logical_or(other) ==
    /\ call.op = "none"
    /\ call' = logical_binary("logical_or", "or", other)
    /\ UNCHANGED <<self, mem>>

logical_not ==
    /\ call.op = "none"
    /\ call' = IF assert_bool(self) # NoError
               THEN Raise("logical_not", [none |-> TRUE], assert_bool(self))
               ELSE Return("logical_not", [none |-> TRUE],
                           <<[fn |-> "invert", arg |-> dtype(self)]>>,
                           <<Wrap(self.cls,
                                  Tensor(shape(self), "bool",
                                         self.raw.device, "invert"))>>)
    /\ UNCHANGED <<self, mem>>

\* ------------------------------------------------------------ constructors
\* torch.ones, torch.zeros, torch.full with dtype= and device= given
torch_new(shape_, dtype_, device_, src) == Tensor(shape_, dtype_, device_, src)

\* torch.rand and torch.randn draw floating point numbers only
torch_random_ok(dtype_) == dtype_ \in {"float32", "float64"}

\* a Python number: an int or a float
Number(kind, val) == [kind |-> kind, val |-> val]

\* torch.arange without dtype=: int64 when start, end and step are all ints,
\* the default floating point type otherwise
torch_arange_dtype(start, end, step) ==
    IF start.kind = "int" /\ end.kind = "int" /\ step.kind = "int"
    THEN "int64" ELSE "float32"

ceil_div(a, b) == IF a <= 0 THEN 0 ELSE ((a - 1) \div b) + 1

torch_arange(start, end, step, device_) ==
    Tensor(<<ceil_div(end.val - start.val, step.val)>>,
           torch_arange_dtype(start, end, step), device_, "arange")

uniform(shape_) ==
    /\ call.op = "none"
    /\ call' = IF ~torch_random_ok(dtype(self))
               THEN BackendRaise("uniform", [shape |-> shape_],
                                 <<[fn |-> "rand", arg |-> shape_]>>,
                                 RuntimeError)
               ELSE Return("uniform", [shape |-> shape_],
                           <<[fn |-> "rand", arg |-> shape_],
                             [fn |-> "mul", arg |-> <<>>],
                             [fn |-> "add", arg |-> <<>>]>>,
                           <<Wrap(self.cls,
                                  torch_new(shape_, self.raw.dtype,
                                            self.raw.device, "rand"))>>)
    /\ UNCHANGED <<self, mem>>

normal(shape_) ==
    /\ call.op = "none"
    /\ call' = IF ~torch_random_ok(dtype(self))
               THEN BackendRaise("normal", [shape |-> shape_],
                                 <<[fn |-> "randn", arg |-> shape_]>>,
                                 RuntimeError)
               ELSE Return("normal", [shape |-> shape_],
                           <<[fn |-> "randn", arg |-> shape_],
                             [fn |-> "mul", arg |-> <<>>],
                             [fn |-> "add", arg |-> <<>>]>>,
                           <<Wrap(self.cls,
                                  torch_new(shape_, self.raw.dtype,
                                            self.raw.device, "randn"))>>)
    /\ UNCHANGED <<self, mem>>

ones(shape_) ==
    /\ call.op = "none"
    /\ call' = Return("ones", [shape |-> shape_],
                      <<[fn |-> "ones", arg |-> shape_]>>,
                      <<Wrap(self.cls,
                             torch_new(shape_, self.raw.dtype,
                                       self.raw.device, "ones"))>>)
    /\ UNCHANGED <<self, mem>>

zeros(shape_) ==
    /\ call.op = "none"
    /\ call' = Return("zeros", [shape |-> shape_],
                      <<[fn |-> "zeros", arg |-> shape_]>>,
                      <<Wrap(self.cls,
                             torch_new(shape_, self.raw.dtype,
                                       self.raw.device, "zeros"))>>)
    /\ UNCHANGED <<self, mem>>

\* torch.ones_like, torch.zeros_like, torch.full_like
torch_like(t, src) == Tensor(t.shape, t.dtype, t.device, src)

ones_like ==
    /\ call.op = "none"
    /\ call' = Return("ones_like", [none |-> TRUE],
                      <<[fn |-> "ones_like", arg |-> shape(self)]>>,
                      <<Wrap(self.cls, torch_like(self.raw, "ones"))>>)
    /\ UNCHANGED <<self, mem>>

zeros_like ==
    /\ call.op = "none"
    /\ call' = Return("zeros_like", [none |-> TRUE],
                      <<[fn |-> "zeros_like", arg |-> shape(self)]>>,
                      <<Wrap(self.cls, torch_like(self.raw, "zeros"))>>)
    /\ UNCHANGED <<self, mem>>

full_like(fill_value) ==
    /\ call.op = "none"
    /\ call' = Return("full_like", [fill_value |-> fill_value],
                      <<[fn |-> "full_like", arg |-> shape(self)]>>,
                      <<Wrap(self.cls, torch_like(self.raw, "full"))>>)
    /\ UNCHANGED <<self, mem>>

\* shape_ is an int or an iterable of ints; an int becomes (shape,)
full(shape_, value) ==
    /\ call.op = "none"
    /\ call' = Return("full", [shape |-> shape_, value |-> value],
                      <<[fn |-> "full", arg |-> shape_.items]>>,
                      <<Wrap(self.cls,
                             torch_new(shape_.items, self.raw.dtype,
                                       self.raw.device, "full"))>>)
    /\ UNCHANGED <<self, mem>>

\* start, stop and step are Python numbers; stop and step may be None
NoneNumber == Number("none", 0)

arange(start, stop, step) ==
    /\ call.op = "none"
    /\ LET step1 == IF step.kind = "none" THEN Number("int", 1) ELSE step
           stop1 == IF stop.kind = "none" THEN start ELSE stop
           start1 == IF stop.kind = "none" THEN Number("int", 0) ELSE start
       IN  call' = Return("arange",
                          [start |-> start, stop |-> stop, step |-> step],
                          <<[fn |-> "arange",
                             arg |-> <<start1.val, stop1.val, step1.val>>]>>,
                          <<Wrap(self.cls,
                                 torch_arange(start1, stop1, step1,
                                              self.raw.device))>>)
    /\ UNCHANGED <<self, mem>>

\* ------------------------------------------------- astype, bool, float32
\* raw.to(dtype)
torch_to(t, dtype_) == Tensor(t.shape, dtype_, t.device, "to")

astype_call(op, dtype_) ==
    Return(op, [dtype |-> dtype_], <<[fn |-> "to", arg |-> dtype_]>>,
           <<Wrap(self.cls, torch_to(self.raw, dtype_))>>)

astype(dtype_) ==
    /\ call.op = "none"
    /\ call' = astype_call("astype", dtype_)
    /\ UNCHANGED <<self, mem>>

bool ==
    /\ call.op = "none"
    /\ call' = astype_call("bool", "bool")
    /\ UNCHANGED <<self, mem>>

float32 ==
    /\ call.op = "none"
    /\ call' = astype_call("float32", "float32")
    /\ UNCHANGED <<self, mem>>

\* ------------------------------------------------------------- the inputs
\* no call has been made yet: an operation is applied once to the inputs
Idle == call.op = "none"

\* another call may follow
More == call.n < MaxCalls

Classes == {"PyTorchTensor", "SubTensor"}

OtherAdapters(n) ==
    {Wrap("PyTorchTensor", Tensor(s, "float32", "cpu", "other")) :
        s \in Shapes(n)}

Multiples == {PyTuple(m) : m \in Shapes(MaxNdim)}

TensorNames == <<"t1", "t2", "t3", "t4">>

Others ==
    UNION {{[i \in 1..k |->
                Wrap("PyTorchTensor",
                     Tensor(<<f[i]>>, "float32", "cpu", TensorNames[i]))] :
              f \in [1..k -> 1..MaxSize]} : k \in 0..MaxOthers}

Indexings == {"xy", "ij", "foo"}

PadPairs == {<<0, 0>>, <<1, 0>>, <<1>>}

Paddings ==
    UNION {{[kind |-> ok,
             items |-> [i \in 1..k |-> [kind |-> pk, items |-> f[i]]]] :
              f \in [1..k -> PadPairs], ok \in {"tuple", "list"},
              pk \in {"tuple", "list"}} : k \in 0..MaxNdim}

PadModes == {"constant", "reflect", "edge"}

AxisRange(n) == IF n = 0 THEN {-1, 0} ELSE (-n)..(n - 1)

AxisArgs(n) ==
    {NoneAxis} \cup {IntAxis(k) : k \in AxisRange(n)}
    \cup {PyTuple(s) : s \in UNION {[1..m -> AxisRange(n)] : m \in 0..MaxAxes}}

Dtypes == {"bool", "int64", "float32"}

\* the second operand of a binary operation: an adapter, a raw backend array,
\* or a Python scalar (bool, int, float, named by the matching element type)
Operands ==
    {Wrap("PyTorchTensor", Tensor(shape(self), d, "cpu", "other")) :
        d \in Dtypes}
    \cup {[kind |-> "raw", raw |-> Tensor(shape(self), d, "cpu", "other")] :
            d \in Dtypes}
    \cup {[kind |-> "scalar", raw |-> Tensor(<<>>, d, "cpu", "scalar")] :
            d \in Dtypes}

SelfAdapters(n, dtypes) ==
    {Wrap("PyTorchTensor", Tensor(s, d, "cpu", "self")) :
        s \in Shapes(n), d \in dtypes}

Init ==
    /\ self \in SelfAdapters(MaxNdim, {"bool", "float32"})
    /\ call = NoCall
    /\ mem = <<>>

Next ==
    \/ Idle /\ \E m \in Multiples : tile(m)
    \/ Idle /\ \E o \in OtherAdapters(3) : matmul(o)
    \/ Idle /\ \E i \in OtherAdapters(2) : onehot_like(i)
    \/ Idle /\ \E l \in OtherAdapters(2) : crossentropy(l)
    \/ Idle /\ \E ts \in Others, ix \in Indexings : meshgrid(ts, ix)
    \/ Idle /\ \E p \in Paddings, m \in PadModes : pad(p, m, 0)
    \/ Idle /\ \E a \in {NoneAxis} \cup {IntAxis(k) : k \in AxisRange(ndim(self))},
          kd \in BOOLEAN : all(a, kd)
    \/ Idle /\ \E a \in {NoneAxis} \cup {IntAxis(k) : k \in AxisRange(ndim(self))},
          kd \in BOOLEAN : any(a, kd)
    \/ Idle /\ \E o \in Operands : logical_and(o)
    \/ Idle /\ \E o \in Operands : logical_or(o)
    \/ Idle /\ logical_not

Spec == Init /\ [][Next]_vars

\* ---------------------------------------- the reductions, on their own
InitReduce ==
    /\ self \in SelfAdapters(MaxRank, {"bool", "float32"})
    /\ call = NoCall
    /\ mem = <<>>

NextReduce ==
    \/ Idle /\ \E a \in AxisArgs(ndim(self)), kd \in BOOLEAN : min(a, kd)
    \/ Idle /\ \E a \in AxisArgs(ndim(self)), kd \in BOOLEAN : max(a, kd)
    \/ Idle /\ \E a \in AxisArgs(ndim(self)), kd \in BOOLEAN : all(a, kd)
    \/ Idle /\ \E a \in AxisArgs(ndim(self)), kd \in BOOLEAN : any(a, kd)
    \/ Idle /\ \E a \in AxisArgs(ndim(self)) : squeeze(a)
    \/ Idle /\ \E o \in Operands : logical_and(o)
    \/ Idle /\ \E o \in Operands : logical_or(o)
    \/ Idle /\ logical_not

SpecReduce == InitReduce /\ [][NextReduce]_vars

\* ------------------------------------- the constructors, on their own
Devices == {"cpu", "cuda"}

ShapeArgs == {PyTuple(s) : s \in Shapes(2)} \cup {IntAxis(n) : n \in 1..MaxSize}

Numbers == {Number("int", 0), Number("int", 2), Number("float", 2)}

StepArgs == {NoneNumber, Number("int", 1), Number("float", 1)}

InitCtor ==
    /\ self \in {Wrap(c, Tensor(s, d, v, "self")) :
                    c \in Classes, s \in Shapes(1), d \in Dtypes, v \in Devices}
    /\ call = NoCall
    /\ mem = <<>>

NextCtor ==
    \/ Idle /\ \E s \in Shapes(2) : ones(s)
    \/ Idle /\ \E s \in Shapes(2) : zeros(s)
    \/ Idle /\ ones_like
    \/ Idle /\ zeros_like
    \/ Idle /\ \E v \in 0..1 : full_like(v)
    \/ Idle /\ \E s \in ShapeArgs, v \in 0..1 : full(s, v)
    \/ Idle /\ \E a \in Numbers, b \in Numbers \cup {NoneNumber}, c \in StepArgs :
          arange(a, b, c)
    \/ Idle /\ \E s \in Shapes(2) : uniform(s)
    \/ Idle /\ \E s \in Shapes(2) : normal(s)
    \/ Idle /\ \E d \in Dtypes : astype(d)
    \/ Idle /\ bool
    \/ Idle /\ float32

SpecCtor == InitCtor /\ [][NextCtor]_vars

\* ------------------------------------- index_update and value_and_grad
\* Here the native arrays are objects: mem[id] holds the array with that id,
\* and an adapter's raw is an id.  mem[1] is the caller's array; the objects a
\* call allocates follow it and are gone when the next call starts.
\*   data           the elements (the arrays here are 1-dimensional, or
\*                  0-dimensional with one element)
\*   requires_grad  the flag of the same name
\*   grad           the accumulated gradient, <<>> while there is none
\*   grad_fn        0 for a leaf, else the id of the array it was computed from
Object(shape_, data, requires_grad, grad_fn) ==
    [shape |-> shape_, dtype |-> "float32", device |-> "cpu", data |-> data,
     requires_grad |-> requires_grad, grad |-> <<>>, grad_fn |-> grad_fn]

is_leaf(o) == o.grad_fn = 0

\* the caller's objects, which outlive a call
kept(m) == SubSeq(m, 1, 1)

\* t.clone(): a new array with a copy of the elements; it stays attached to
\* the graph of t when t requires grad
torch_clone(m, id) ==
    Object(m[id].shape, m[id].data, m[id].requires_grad,
           IF m[id].requires_grad THEN id ELSE 0)

\* t.detach(): the same elements, outside any graph
torch_detach(m, id) == Object(m[id].shape, m[id].data, FALSE, 0)

\* the positions, counted from 0, that an index selects
positions(index) ==
    IF index.kind = "int" THEN {index.val}
    ELSE IF index.kind = "array" THEN {index.data[i] : i \in 1..Len(index.data)}
    ELSE {index.items[1].data[i] : i \in 1..Len(index.items[1].data)}

\* x[indices] = values, on the elements
torch_setitem(data, index, value) ==
    [i \in 1..Len(data) |-> IF (i - 1) \in positions(index) THEN value.val
                            ELSE data[i]]

\* unwrap_(indices, values), and unwrap_ again of a tuple of indices
unwrap_index(indices) ==
    IF indices.kind = "tuple"
    THEN [kind |-> "tuple", items |-> unwrap_all(indices.items)]
    ELSE unwrap_(indices)

\* index_update that assigns into self.raw itself instead of a clone of it
index_update_in_place(indices, values) ==
    /\ call.n < MaxCalls
    /\ mem' = [kept(mem) EXCEPT ![self.raw].data =
                  torch_setitem(@, unwrap_index(indices), unwrap_(values))]
    /\ call' = Return("index_update", [indices |-> indices, values |-> values],
                      <<[fn |-> "setitem", arg |-> <<>>]>>,
                      <<Wrap(self.cls, self.raw)>>)
    /\ UNCHANGED self

index_update(indices, values) ==
    /\ call.n < MaxCalls
    /\ LET x == Len(kept(mem)) + 1
           cloned == Append(kept(mem), torch_clone(mem, self.raw))
       IN  /\ mem' = [cloned EXCEPT ![x].data =
                         torch_setitem(@, unwrap_index(indices),
                                       unwrap_(values))]
           /\ call' = Return("index_update",
                             [indices |-> indices, values |-> values],
                             <<[fn |-> "clone", arg |-> <<>>],
                               [fn |-> "setitem", arg |-> <<>>]>>,
                             <<Wrap(self.cls, x)>>)
    /\ UNCHANGED self

RECURSIVE sum(_)
sum(s) == IF s = <<>> THEN 0 ELSE Head(s) + sum(Tail(s))

\* the caller's function f, one of: x.sum(), x.square().sum()
f_loss(f, data) ==
    IF f = "sum" THEN sum(data) ELSE sum([i \in 1..Len(data) |-> data[i] * data[i]])

\* the derivative of that loss with respect to each element
f_grad(f, data) ==
    [i \in 1..Len(data) |-> IF f = "sum" THEN 1 ELSE 2 * data[i]]

\* the leaf that the gradient of array id is accumulated in
RECURSIVE leaf_of(_, _)
leaf_of(m, id) == IF is_leaf(m[id]) THEN id ELSE leaf_of(m, m[id].grad_fn)

\* loss.backward(), loss computed from array id: the gradient is added to
\* what the leaf under id has accumulated so far
torch_backward(m, id, g) ==
    [m EXCEPT ![leaf_of(m, id)].grad =
        IF @ = <<>> THEN g ELSE [i \in 1..Len(g) |-> @[i] + g[i]]]

\* t.grad: the accumulated gradient of a leaf, None for any other array
torch_grad(m, id) == IF is_leaf(m[id]) THEN m[id].grad ELSE <<>>

\* what f hands back beside the loss: the tensor it computed on the way, a
\* tuple of that tensor and a plain value, or a plain value
Plain == [kind |-> "scalar", val |-> 7]

f_aux(auxkind, cls, id) ==
    IF auxkind = "tensor" THEN Wrap(cls, id)
    ELSE IF auxkind = "tuple" THEN PyTuple(<<Wrap(cls, id), Plain>>)
    ELSE Plain

has_tensor(aux) == aux.kind \in {"adapter", "tuple"}

\* the adapters the closure builds around the detached aux arrays
detached_aux(aux, id) ==
    IF aux.kind = "adapter" THEN Wrap("PyTorchTensor", id)
    ELSE IF aux.kind = "tuple"
    THEN PyTuple([i \in 1..Len(aux.items) |->
                    IF aux.items[i].kind = "adapter"
                    THEN Wrap("PyTorchTensor", id)
                    ELSE aux.items[i]])
    ELSE aux

\* the function that _value_and_grad_fn(f, has_aux) returns, called on x.
\* The objects of the call, after the caller's: the copy of x, the tensor f
\* computes on the way, the loss, the gradient, the detached loss and, when
\* aux holds a tensor, the detached aux.
value_and_grad(f, has_aux, auxkind, x) ==
    /\ call.n < MaxCalls
    /\ LET base == Len(kept(mem))
           copy == base + 1
           mid == base + 2
           loss == base + 3
           gradid == base + 4
           m1 == Append(kept(mem),
                        [torch_clone(mem, x.raw) EXCEPT !.requires_grad = TRUE])
           m2 == m1 \o <<Object(m1[copy].shape, m1[copy].data, TRUE, copy),
                         Object(<<>>, <<f_loss(f, m1[copy].data)>>, TRUE, mid)>>
           aux == f_aux(auxkind, self.cls, mid)
           m3 == torch_backward(m2, loss, f_grad(f, m2[copy].data))
           m4 == Append(m3, Object(m3[copy].shape, torch_grad(m3, copy),
                                   FALSE, 0))
           m5 == m4 \o <<torch_detach(m4, loss)>>
                    \o (IF has_aux /\ has_tensor(aux)
                        THEN <<torch_detach(m4, mid)>> ELSE <<>>)
           args == [f |-> f, has_aux |-> has_aux, auxkind |-> auxkind,
                    x |-> x]
           done == <<[fn |-> "clone", arg |-> <<>>],
                     [fn |-> "f", arg |-> <<>>],
                     [fn |-> "backward", arg |-> <<>>],
                     [fn |-> "grad", arg |-> <<>>]>>
       IN  IF torch_grad(m3, copy) = <<>>
           THEN /\ mem' = m3
                /\ call' = BackendRaise("value_and_grad", args, done,
                                        AssertionError)
           ELSE /\ mem' = m5
                /\ call' = Return("value_and_grad", args,
                                  done \o <<[fn |-> "detach", arg |-> <<>>]>>,
                                  IF has_aux
                                  THEN <<Wrap(self.cls, gradid + 1),
                                         detached_aux(aux, gradid + 2),
                                         Wrap(self.cls, gradid)>>
                                  ELSE <<Wrap(self.cls, gradid + 1),
                                         Wrap(self.cls, gradid)>>)
    /\ UNCHANGED self

Elements == {0, 1}

CallerObjects ==
    {Object(<<n>>, d, rg, 0) :
        n \in 1..MaxLen, d \in UNION {[1..k -> Elements] : k \in 1..MaxLen},
        rg \in BOOLEAN}

\* an index: an int, an adapter around an index array, or a tuple of one
IndexArrays(n) ==
    {[kind |-> "array", data |-> d] :
        d \in {e \in UNION {[1..k -> 0..(n - 1)] : k \in 0..n} :
                  \A i \in 1..(Len(e) - 1) : e[i] < e[i + 1]}}

Indices(n) ==
    {[kind |-> "int", val |-> i] : i \in 0..(n - 1)}
    \cup {Wrap("PyTorchTensor", a) : a \in IndexArrays(n)}
    \cup {PyTuple(<<Wrap("PyTorchTensor", a)>>) : a \in IndexArrays(n)}

UpdateValues ==
    {[kind |-> "scalar", val |-> v] : v \in {0, 5}}
    \cup {Wrap("PyTorchTensor", [kind |-> "scalar", val |-> 5])}

InitGrad ==
    /\ mem \in {<<o>> : o \in {c \in CallerObjects : Len(c.data) = c.shape[1]}}
    /\ self \in {Wrap(c, 1) : c \in Classes}
    /\ call = NoCall

NextGrad ==
    \/ More /\ \E i \in Indices(Len(mem[1].data)), v \in UpdateValues :
          index_update(i, v)
    \/ More /\ \E f \in {"sum", "square_sum"}, c \in Classes :
          value_and_grad(f, FALSE, "none", Wrap(c, 1))
    \/ More /\ \E f \in {"sum", "square_sum"}, c \in Classes,
          k \in {"tensor", "tuple", "plain"} :
          value_and_grad(f, TRUE, k, Wrap(c, 1))

SpecGrad == InitGrad /\ [][NextGrad]_vars

\* =================================================================== claims

\* ---- C1 -------------------------------------------------------------------
\* the stated precondition of the operation of the last call is violated
LeadingPairsZero(paddings, k) ==
    \A i \in 1..k : paddings.items[i].items = <<0, 0>>

PadWellFormed(paddings) ==
    /\ Len(paddings.items) = ndim(self)
    /\ \A i \in 1..Len(paddings.items) : Len(paddings.items[i].items) = 2

Violates ==
    CASE call.op = "tile" -> Len(call.args.multiples.items) # ndim(self)
      [] call.op = "pad" ->
            \/ ~PadWellFormed(call.args.paddings)
            \/ call.args.mode \notin {"constant", "reflect"}
            \/ /\ call.args.mode = "reflect"
               /\ \/ ndim(self) \notin {3, 4}
                  \/ ~LeadingPairsZero(call.args.paddings, ndim(self) - 2)
      [] call.op = "onehot_like" ->
            \/ ndim(self) # 2
            \/ ndim(call.args.indices) # 1
            \/ shape(call.args.indices)[1] # shape(self)[1]
      [] call.op = "crossentropy" ->
            \/ ndim(self) # 2
            \/ shape(call.args.labels) # <<shape(self)[1]>>
      [] call.op = "matmul" -> ndim(self) # 2 \/ ndim(call.args.other) # 2
      [] call.op = "meshgrid" -> call.args.indexing \notin {"xy", "ij"}
      [] call.op \in {"all", "any", "logical_not"} -> dtype(self) # "bool"
      [] call.op \in {"logical_and", "logical_or"} ->
            dtype(self) # "bool" \/ call.args.other.raw.dtype # "bool"
      [] OTHER -> FALSE

\* C1: a call of tile, pad, onehot_like, crossentropy, matmul, meshgrid, all,
\* any, logical_and, logical_or or logical_not that violates the operation's
\* stated precondition ends in an error, with no backend call made before it
\* and no result adapter produced.
C1_PreconditionFailsBeforeBackend ==
    Violates =>
        /\ call.err # NoError
        /\ call.backend = <<>>
        /\ call.result = <<>>

\* ---- C5 -------------------------------------------------------------------
\* C5: meshgrid fails with a ValueError for every indexing other than "xy" and
\* "ij", whatever the number of other tensors (zero included); for "ij" result
\* i is the grid of input i (self first, then the others in order); for "xy"
\* with at least two outputs the results are the backend's grid tensors with
\* the first two swapped.
C5_Meshgrid ==
    call.op = "meshgrid" =>
        LET ts == call.args.tensors
            inputs == <<"self">> \o [i \in 1..Len(ts) |-> ts[i].raw.src]
            res == call.result
        IN  /\ call.args.indexing \notin {"xy", "ij"} => call.err = ValueError
            /\ call.args.indexing = "ij" /\ call.err = NoError =>
                   /\ Len(res) = Len(inputs)
                   /\ \A i \in 1..Len(res) : res[i].raw.src = inputs[i]
            /\ call.args.indexing = "xy" /\ call.err = NoError
                 /\ Len(res) >= 2 =>
                   /\ Len(res) = Len(call.backend[1].arg)
                   /\ res[1].raw.src = call.backend[1].arg[2]
                   /\ res[2].raw.src = call.backend[1].arg[1]
                   /\ \A i \in 3..Len(res) :
                          res[i].raw.src = call.backend[1].arg[i]

\* ---- C9 -------------------------------------------------------------------
\* the (before, after) amounts requested for dimension d, counted from 1
PadBefore(d) == call.args.paddings.items[d].items[1]
PadAfter(d) == call.args.paddings.items[d].items[2]

\* entries 2j and 2j+1 (from 0) of flat are before and after of dimension
\* ndim-1-j, for the trailing m dimensions
TrailingFirst(flat, m) ==
    /\ Len(flat) = 2 * m
    /\ \A j \in 0..(m - 1) :
          /\ flat[2 * j + 1] = PadBefore(ndim(self) - j)
          /\ flat[2 * j + 2] = PadAfter(ndim(self) - j)

\* C9: pad with one (before, after) pair per dimension hands the backend a
\* flat padding ordered trailing dimension first; in mode "constant" it covers
\* every dimension, dimension d of the result has size shape[d] + before_d +
\* after_d and the input sits at offset before_d (so cropping reproduces it);
\* in mode "reflect" the call is accepted exactly for 3- or 4-dimensional
\* inputs whose leading ndim-2 dimensions all request (0, 0), whatever
\* sequence type paddings is, and fails as not implemented otherwise.
C9_Pad ==
    call.op = "pad" /\ PadWellFormed(call.args.paddings) =>
        /\ call.args.mode = "constant" =>
              /\ call.err = NoError
              /\ TrailingFirst(call.backend[1].arg, ndim(self))
              /\ \A d \in 1..ndim(self) :
                    /\ call.result[1].raw.shape[d]
                         = shape(self)[d] + PadBefore(d) + PadAfter(d)
                    /\ call.result[1].raw.origin[d] = PadBefore(d)
        /\ call.args.mode = "reflect" =>
              IF /\ ndim(self) \in {3, 4}
                 /\ LeadingPairsZero(call.args.paddings, ndim(self) - 2)
              THEN /\ call.err # NotImplementedError
                   /\ TrailingFirst(call.backend[1].arg, 2)
              ELSE call.err = NotImplementedError

\* ---- C2 -------------------------------------------------------------------
BoolOps == {"all", "any", "logical_not", "logical_and", "logical_or"}

BinaryBoolOps == {"logical_and", "logical_or"}

DimOf(k) == IF k < 0 THEN k + ndim(self) + 1 ELSE k + 1

\* the axis argument of the last call is None, a valid index, or a sequence
\* of valid indices naming distinct dimensions
AxisValid ==
    \/ call.args.axis.kind = "none"
    \/ /\ call.args.axis.kind \in {"int", "tuple"}
       /\ \A i \in 1..Len(call.args.axis.items) :
             /\ -ndim(self) <= call.args.axis.items[i]
             /\ call.args.axis.items[i] < ndim(self)
       /\ \A i, j \in 1..Len(call.args.axis.items) :
             i # j => DimOf(call.args.axis.items[i])
                        # DimOf(call.args.axis.items[j])

RequestedDims ==
    IF call.args.axis.kind = "none" THEN 1..ndim(self)
    ELSE {DimOf(call.args.axis.items[i]) :
             i \in 1..Len(call.args.axis.items)}

RECURSIVE without_dims(_, _, _)
without_dims(s, dims, d) ==
    IF s = <<>> THEN <<>>
    ELSE (IF d \in dims THEN <<>> ELSE <<Head(s)>>)
         \o without_dims(Tail(s), dims, d + 1)

ExpectedShape ==
    IF call.args.keepdims
    THEN [d \in 1..ndim(self) |->
             IF d \in RequestedDims THEN 1 ELSE shape(self)[d]]
    ELSE without_dims(shape(self), RequestedDims, 1)

\* C3: min, max, all and any (the last two on a boolean tensor) succeed for
\* every shape and every axis argument that is None, a valid index k
\* (-ndim <= k < ndim) or a sequence of valid indices of distinct dimensions,
\* and the result's shape is the input's with the requested dimensions
\* removed (keepdims false) or set to 1 (keepdims true).
C3_ReducedShape ==
    /\ call.op \in {"min", "max", "all", "any"}
    /\ call.op \in {"all", "any"} => dtype(self) = "bool"
    /\ AxisValid
    => /\ call.err = NoError
       /\ call.result[1].raw.shape = ExpectedShape

\* ---- C4 -------------------------------------------------------------------
Steps == [j \in 1..Len(call.backend) |-> call.backend[j].dim[1]]

Count(s, v) == Cardinality({j \in 1..Len(s) : s[j] = v})

Rearrangements(s) ==
    {[i \in 1..Len(s) |-> s[p[i]]] :
        p \in {q \in [1..Len(s) -> 1..Len(s)] :
                  \A i, j \in 1..Len(s) : i # j => q[i] # q[j]}}

\* what the operation of the last call does when given the axes in order s
OutcomeFor(s) ==
    IF call.op = "squeeze" THEN squeeze_call(PyTuple(s))
    ELSE reduce(call.op, PyTuple(s), call.args.keepdims)

\* C4: min, max, all, any and squeeze given a sequence of several axes apply
\* the backend's single-axis operation in descending numeric order of the
\* axis indices, once per requested axis when the call returns (up to the
\* step the backend refuses otherwise), so that every rearrangement of the
\* axis sequence makes the same backend steps and returns the same result.
C4_DescendingOrder ==
    /\ call.op \in {"min", "max", "all", "any", "squeeze"}
    /\ call.args.axis.kind = "tuple"
    /\ Len(call.args.axis.items) >= 2
    /\ call.op \in {"all", "any"} => dtype(self) = "bool"
    => /\ \A j \in 1..(Len(Steps) - 1) : Steps[j] >= Steps[j + 1]
       /\ \A j \in 1..Len(Steps) : call.backend[j].fn = call.op
       /\ \A v \in AxisRange(ndim(self)) :
             Count(Steps, v) <= Count(call.args.axis.items, v)
       /\ call.err = NoError =>
             \A v \in AxisRange(ndim(self)) :
                 Count(Steps, v) = Count(call.args.axis.items, v)
       /\ \A s \in Rearrangements(call.args.axis.items) :
             /\ OutcomeFor(s).backend = call.backend
             /\ OutcomeFor(s).result = call.result
             /\ OutcomeFor(s).err = call.err

\* max over the axes (0, 1), given in ascending order, has returned
C4_Witness ==
    /\ call.op = "max"
    /\ call.args.axis.kind = "tuple"
    /\ call.args.axis.items = <<0, 1>>
    /\ call.err = NoError
    /\ Steps = <<1, 0>>
    /\ call.result[1].raw.shape = <<>>

\* ---- C8 -------------------------------------------------------------------
Constructors == {"ones", "zeros", "ones_like", "zeros_like", "full_like",
                 "full", "arange", "uniform", "normal"}

\* C8: ones, zeros, ones_like, zeros_like, full_like, full, arange, uniform
\* and normal called on an adapter return a tensor whose dtype and device are
\* those of the adapter.
C8_ConstructorsKeepDtypeAndDevice ==
    call.op \in Constructors /\ call.err = NoError =>
        /\ call.result[1].raw.dtype = self.raw.dtype
        /\ call.result[1].raw.device = self.raw.device

\* ---- C6 -------------------------------------------------------------------
\* the positions, counted from 0, that the indices argument of a call selects
SelectedBy(indices) ==
    IF indices.kind = "int" THEN {indices.val}
    ELSE IF indices.kind = "adapter"
    THEN {indices.raw.data[i] : i \in 1..Len(indices.raw.data)}
    ELSE {indices.items[1].raw.data[i] :
             i \in 1..Len(indices.items[1].raw.data)}

AssignedBy(values) ==
    IF values.kind = "adapter" THEN values.raw.val ELSE values.val

\* C6: no call changes the calling adapter: it keeps the same native array
\* with the same contents; and every index_update returns an adapter around
\* another array, a clone that differs from the caller's only at the
\* positions the indices select, where it holds the values.
C6_IndexUpdateLeavesSelf ==
    [][/\ self' = self
       /\ mem'[self.raw].data = mem[self.raw].data
       /\ mem'[self.raw].shape = mem[self.raw].shape
       /\ call'.op = "index_update" /\ call'.n = call.n + 1 =>
             /\ call'.err = NoError
             /\ call'.result[1].raw # self.raw
             /\ call'.result[1].raw \in DOMAIN mem'
             /\ \A p \in 1..Len(mem[self.raw].data) :
                   mem'[call'.result[1].raw].data[p] =
                       IF (p - 1) \in SelectedBy(call'.args.indices)
                       THEN AssignedBy(call'.args.values)
                       ELSE mem[self.raw].data[p]]_vars

\* a second index_update in a row has returned an array that differs from
\* the caller's
C6_Witness ==
    /\ call.op = "index_update"
    /\ call.n = 2
    /\ call.result[1].raw # self.raw
    /\ mem[call.result[1].raw].data # mem[self.raw].data

\* ---- C7 -------------------------------------------------------------------
\* C7: every call of the function value_and_grad_fn returns works on a fresh
\* copy of x: the caller's x keeps its array, its requires-grad flag and its
\* absent gradient; the steps run in the order copy, f, backward, gradient
\* checks, detach, return; the call returns (loss, grad), or (loss, aux,
\* grad) with has_aux, the loss detached and the gradient that of this call
\* alone.
C7_FreshCopyEachCall ==
    [][call'.op = "value_and_grad" /\ call'.n = call.n + 1 =>
          /\ mem'[call'.args.x.raw] = mem[call'.args.x.raw]
          /\ mem'[call'.args.x.raw].grad = <<>>
          /\ call'.err = NoError
          /\ [j \in 1..Len(call'.backend) |-> call'.backend[j].fn]
                = <<"clone", "f", "backward", "grad", "detach">>
          /\ Len(call'.result) = IF call'.args.has_aux THEN 3 ELSE 2
          /\ mem'[call'.result[Len(call'.result)].raw].data
                = f_grad(call'.args.f, mem[call'.args.x.raw].data)
          /\ mem'[call'.result[1].raw].data
                = <<f_loss(call'.args.f, mem[call'.args.x.raw].data)>>
          /\ ~mem'[call'.result[1].raw].requires_grad
          /\ mem'[call'.result[1].raw].grad_fn = 0]_vars

\* ---- C10 ------------------------------------------------------------------
\* C10: every adapter a call returns, the ones inside a returned tuple
\* included (loss, grad and the detached tensors of aux), is of the class of
\* the adapter the call was made on.
C10_SameVariant ==
    \A i \in 1..Len(call.result) :
        /\ call.result[i].kind = "adapter" => call.result[i].cls = self.cls
        /\ call.result[i].kind = "tuple" =>
              \A j \in 1..Len(call.result[i].items) :
                  call.result[i].items[j].kind = "adapter" =>
                      call.result[i].items[j].cls = self.cls

====
